---- MODULE Spec2Model ----
(***************************************************************************)
(* Model of bddtests/steps/bdd_compose_util.py: the container registry     *)
(* kept on the behave context (parseComposeOutput), the environment lookup *)
(* of a ContainerData (getEnv) and the readiness polling                   *)
(* (allContainersAreReadyWithinTimeout and the functions it calls).        *)
(*                                                                         *)
(* Python strings are sequences of one-character strings, so that `in`,    *)
(* startswith, slicing and concatenation are computed, not assumed.        *)
(***************************************************************************)
EXTENDS Integers, Sequences, FiniteSets

VARIABLES
    has_compose_containers, \* "compose_containers" in context
    compose_containers,     \* context.compose_containers: sequence of ContainerData
    compose_error,          \* context.compose_error, already split in lines and tokens
    op,                     \* the operation that made the last step
    envRecord,              \* the ContainerData getEnv is called on
    envKey,                 \* the key getEnv is called with
    envValue,               \* what getEnv did: nothing yet, a value, or the exception
    pc,                     \* position of allContainersAreReadyWithinTimeout
    now,                    \* time.time(), counted from the entry of the call
    timeoutTimestamp,       \* the deadline computed at line 102
    allContainers,          \* the local of line 106
    cidx,                   \* index of the container of the loop of line 108
    peers,                  \* the local of line 174
    pidx,                   \* index of the peer of the loop of line 177
    result,                 \* what the call returned: "none", "True", "False", "raised"
    cstate,                 \* per container check: PENDING, READY, TIMED_OUT
    pstate,                 \* per peer check: PENDING, READY, TIMED_OUT
    cevals,                 \* per container: evaluations of containerIsNotInitialized
    pevals,                 \* per peer: evaluations of peerIsNotReady
    pseen,                  \* per peer: the kinds of answer its endpoint gave
    cfirst,                 \* per container: what its first poll found
    pfirst,                 \* per peer: what its first poll found
    sleeps,                 \* time.sleep(1) calls of the current call
    checkStart,             \* time.time() when the current check began
    qPeers,                 \* peerIsReady called on its own: allPeers
    qResponse,              \* ... the answer of thisPeer's endpoint
    qResult,                \* ... "none", "True", "False" or "raised"
    qContainer,             \* containerIsInitialized / containerIsPeer called on their own
    qNetstat,               \* ... the lines netstat -atun prints in the container
    qCurlExit,              \* ... the exit code the curl of the REST port would give
    qOutcome                \* ... what the call did

regVars   == <<has_compose_containers, compose_containers, compose_error>>
envVars   == <<envRecord, envKey, envValue>>
probeVars == <<qContainer, qNetstat, qCurlExit, qOutcome>>
callVars  == <<qPeers, qResponse, qResult, probeVars>>
readyVars == <<pc, now, timeoutTimestamp, allContainers, cidx, peers, pidx, result,
               cstate, pstate, cevals, pevals, pseen, cfirst, pfirst, sleeps, checkStart>>
vars      == <<regVars, op, envVars, callVars, readyVars>>

----------------------------------------------------------------------------
(* Bounds of the model *)
MaxLines      == 2   \* lines of one compose output
MaxReg        == 2   \* registry length up to which parseComposeOutput is explored
MaxEnvLen     == 2   \* entries of an environment list
MaxContainers == 2   \* registry length in the readiness specification
MaxTimeout    == 1   \* largest timeout argument
MaxLatency    == 1   \* longest a blocking probe takes
MaxPeerList   == 2   \* longest peers list an endpoint returns
MaxNetstat    == 2   \* lines of a netstat output

----------------------------------------------------------------------------
(* Python string helpers *)

\* sub in s
Contains(s, sub) ==
    \E i \in 0..(Len(s) - Len(sub)) : SubSeq(s, i + 1, i + Len(sub)) = sub

\* s.startswith(p)
StartsWith(s, p) == Len(p) <= Len(s) /\ SubSeq(s, 1, Len(p)) = p

\* s[n:]
SliceFrom(s, n) == SubSeq(s, n + 1, Len(s))

\* x in list
InSeq(x, list) == \E i \in 1..Len(list) : list[i] = x

RECURSIVE SeqsUpTo(_, _)
SeqsUpTo(S, n) ==
    IF n = 0 THEN {<<>>}
    ELSE LET shorter == SeqsUpTo(S, n - 1)
         IN  shorter \cup {Append(s, x) : s \in {t \in shorter : Len(t) = n - 1}, x \in S}

----------------------------------------------------------------------------
(* The environment of parseComposeOutput: working directory, compose output, docker *)

\* os.path.basename(os.getcwd()): the compose project is the directory "n"
cwdBasename == <<"n">>

\* second tokens of the lines of a compose output
Tok_vp0     == <<"v", "p", "0">>
Tok_VP1     == <<"V", "P", "1">>
Tok_db      == <<"d", "b">>
Tok_n_vp0_1 == <<"n", "_", "v", "p", "0", "_", "1">>   \* an instance name, prefix included
Tok_xn_db   == <<"x", "n", "_", "d", "b">>             \* "n_" inside, not in front
Tokens      == {Tok_vp0, Tok_n_vp0_1, Tok_xn_db}

\* l.split() of a line: one token, or "Creating <name>"
Lines   == {<<"Creating">>} \cup {<<"Creating", t>> : t \in Tokens}
Outputs == SeqsUpTo(Lines, MaxLines)

\* docker inspect --format "{{ .NetworkSettings.IPAddress }}" <name>
DockerIPAddress(name) ==
    CASE name = <<"n", "_">> \o Tok_vp0 \o <<"_", "1">> -> "172.17.0.2"
      [] name = <<"n", "_">> \o Tok_VP1 \o <<"_", "1">> -> "172.17.0.3"
      [] name = <<"n", "_">> \o Tok_db \o <<"_", "1">>  -> "172.17.0.4"
      [] OTHER                                          -> "172.17.0.5"

\* KEY=VALUE entries of an environment list
Env_FOO_x    == <<"F", "O", "O", "=", "x">>
Env_FOOBAR_y == <<"F", "O", "O", "B", "A", "R", "=", "y">>
Env_BAR_z    == <<"B", "A", "R", "=", "z">>
EnvEntries   == {Env_FOO_x, Env_FOOBAR_y, Env_BAR_z}

\* docker inspect --format "{{ .Config.Env }}" <name>, brackets stripped and split
DockerEnv(name) ==
    IF Contains(name, <<"d", "b">>)
    THEN <<Env_BAR_z>>
    ELSE <<Env_FOOBAR_y, Env_FOO_x>>

\* the com.docker.compose.service label of <name>
DockerComposeService(name) ==
    CASE Contains(name, Tok_vp0) -> "vp0"
      [] Contains(name, Tok_VP1) -> "VP1"
      [] OTHER                   -> "db"

----------------------------------------------------------------------------
(* parseComposeOutput, lines 53-99 *)

containerNamePrefix == cwdBasename \o <<"_">>

\* lines 62-64: the name registered for the second token of a line
thisContainerOf(token) ==
    IF ~Contains(token, containerNamePrefix)
    THEN containerNamePrefix \o token \o <<"_", "1">>
    ELSE token

\* the loop of lines 58-66 without the membership test of line 65
RECURSIVE containerNamesOf_NoDedup(_, _)
containerNamesOf_NoDedup(lines, acc) ==
    IF lines = <<>> THEN acc
    ELSE LET tokens == Head(lines)
         IN  IF 1 < Len(tokens)
             THEN containerNamesOf_NoDedup(Tail(lines), Append(acc, thisContainerOf(tokens[2])))
             ELSE containerNamesOf_NoDedup(Tail(lines), acc)

\* lines 58-66: the loop over the lines, containerNames so far in acc
RECURSIVE containerNamesOf(_, _)
containerNamesOf(lines, acc) ==
    IF lines = <<>> THEN acc
    ELSE LET tokens == Head(lines)
         IN  IF 1 < Len(tokens)
             THEN LET thisContainer == thisContainerOf(tokens[2])
                  IN  containerNamesOf(Tail(lines),
                          IF ~InSeq(thisContainer, acc)
                          THEN Append(acc, thisContainer)
                          ELSE acc)
             ELSE containerNamesOf(Tail(lines), acc)

\* line 90: ContainerData(containerName, ipAddress, env, dockerComposeService)
ContainerData(containerName) ==
    [containerName  |-> containerName,
     ipAddress      |-> DockerIPAddress(containerName),
     envFromInspect |-> DockerEnv(containerName),
     composeService |-> DockerComposeService(containerName)]

\* lines 71-90: one ContainerData per name, in order
containerDataListOf(containerNames) ==
    [i \in 1..Len(containerNames) |-> ContainerData(containerNames[i])]

\* lines 92-96 with the new records put first
mergedList_Prepend(existing, containerDataList) == containerDataList \o existing

\* lines 92-96: the new list is the existing one followed by the new records
mergedList(existing, containerDataList) == existing \o containerDataList

\* the registry as the code reads it: an absent attribute merges like the empty list
existingList == IF has_compose_containers THEN compose_containers ELSE <<>>

\* The test step stores the compose output on the context and calls
\* parseComposeOutput. inspectOk: every docker inspect of lines 73-87 succeeded
\* and printed what the slicing expects; otherwise cli_call (expect_success=True)
\* or the indexing raises before line 98 and the context keeps its registry.
parseComposeOutput(out, inspectOk) ==
    /\ pc \in {"idle", "done", "raised"}
    /\ LET containerNames == containerNamesOf(out, <<>>)
           newList        == mergedList(existingList, containerDataListOf(containerNames))
       IN  /\ Len(newList) <= MaxReg
           /\ compose_error' = out
           /\ IF inspectOk \/ containerNames = <<>>
              THEN /\ compose_containers' = newList
                   /\ has_compose_containers' = TRUE
                   /\ op' = "parseComposeOutput"
              ELSE /\ UNCHANGED <<compose_containers, has_compose_containers>>
                   /\ op' = "parseComposeOutput raised"
    /\ UNCHANGED <<envVars, callVars, readyVars>>

ParseComposeOutput == \E out \in Outputs, inspectOk \in BOOLEAN : parseComposeOutput(out, inspectOk)

----------------------------------------------------------------------------
(* ContainerData.getEnv, lines 30-38 *)

NoValue == [kind |-> "none", value |-> <<>>]

\* lines 32-35: the first entry that starts with the key gives the value
RECURSIVE envValueOf(_, _)
envValueOf(envFromInspect, key) ==
    IF envFromInspect = <<>> THEN NoValue
    ELSE LET val == Head(envFromInspect)
         IN  IF StartsWith(val, key)
             THEN [kind |-> "value", value |-> SliceFrom(val, Len(key))]
             ELSE envValueOf(Tail(envFromInspect), key)

\* lines 30-38: the value, or the exception of line 37
getEnv(self, key) ==
    LET found == envValueOf(self.envFromInspect, key)
    IN  IF found = NoValue
        THEN [kind |-> "raised", value |-> <<>>]
        ELSE found

GetEnv ==
    /\ envValue = NoValue
    /\ envValue' = getEnv(envRecord, envKey)
    /\ op' = "getEnv"
    /\ UNCHANGED <<regVars, envRecord, envKey, callVars, readyVars>>

\* keys getEnv is asked for
EnvKeys == {<<"F", "O", "O">>, <<"B", "A", "R">>, <<"F", "O", "O", "B", "A", "R">>,
            <<"B", "A", "Z">>, <<"F", "O">>}

----------------------------------------------------------------------------
(* Readiness polling, lines 101-238.                                       *)
(* The clock is read where the code reads it. It advances while the caller *)
(* is blocked: in a probe (docker exec, the GET request) by its latency,   *)
(* and in time.sleep(1) by one second.                                     *)

HTTP_OK == 200

\* what a peer's /network/peers endpoint answers: a status and a JSON body
PeerDescriptors == {"a", "b"}
Responses ==
    {[status |-> st, hasPeers |-> FALSE, peers |-> <<>>] : st \in {HTTP_OK, 404, 500}}
    \cup {[status |-> HTTP_OK, hasPeers |-> TRUE, peers |-> l] :
            l \in SeqsUpTo(PeerDescriptors, MaxPeerList)}

Timeouts  == (-1)..MaxTimeout
Latencies == 0..MaxLatency

\* line 102
timeoutTimestampOf(t, timeout) == t + timeout

\* lines 131-132 with >= in place of >
timestampExceeded_AtDeadline(t, deadline) == t >= deadline

\* lines 131-132 one second late
timestampExceeded_Late(t, deadline) == t > deadline + 1

\* lines 126, 207 with a clock that stands still during the sleep
afterSleep_ClockStopped(t) == t

\* lines 126, 207: time.sleep(1) returns with the clock one second on
afterSleep(t) == t + 1

\* lines 131-132 with a deadline that has always passed
timestampExceeded_Always(t, deadline) == TRUE

\* lines 131-132 with a deadline that never passes
timestampExceeded_Never(t, deadline) == FALSE

\* lines 131-132
timestampExceeded(t, deadline) == t > deadline

\* a line of netstat -atun, by the state column the regular expression looks for
NetstatLines == {"ESTABLISHED", "LISTEN", "TIME_WAIT"}

\* lines 143-151: re.search("ESTABLISHED|LISTEN", line) on some line of the output
tcpPortsAreReady(netstatOutput) ==
    \E i \in 1..Len(netstatOutput) : netstatOutput[i] \in {"ESTABLISHED", "LISTEN"}

\* lines 192-198 without re.IGNORECASE
containerIsPeer_CaseSensitive(container) ==
    LET name == container.containerName
    IN  \E i \in 1..(Len(name) - 2) :
            /\ name[i] = "v"
            /\ name[i + 1] = "p"
            /\ name[i + 2] \in {"0", "1", "2", "3", "4", "5", "6", "7", "8", "9"}

\* lines 192-198: re.search("vp[0-9]+", name, re.IGNORECASE)
containerIsPeer(container) ==
    LET name == container.containerName
    IN  \E i \in 1..(Len(name) - 2) :
            /\ name[i] \in {"v", "V"}
            /\ name[i + 1] \in {"p", "P"}
            /\ name[i + 2] \in {"0", "1", "2", "3", "4", "5", "6", "7", "8", "9"}

\* lines 159-171 without the test of line 163
restPortRespondsIfContainerIsPeer_Always(container, curlOk) == curlOk

\* lines 159-171: curlOk is "the curl of the REST port exited with 0"
restPortRespondsIfContainerIsPeer(container, curlOk) ==
    IF containerIsPeer(container) THEN curlOk ELSE TRUE

\* lines 137-151: netstatOk is "a line of netstat -atun has ESTABLISHED or LISTEN"
containerIsInitialized(container, netstatOk, curlOk) ==
    netstatOk /\ restPortRespondsIfContainerIsPeer(container, curlOk)

\* lines 139, 163-164: the curl runs when the `and` of line 139 reaches its right
\* operand and the container is a peer
curlIsIssued(container, netstatOk) == netstatOk /\ containerIsPeer(container)

\* lines 183-190
RECURSIVE getPeerContainers(_)
getPeerContainers(containers) ==
    IF containers = <<>> THEN <<>>
    ELSE IF containerIsPeer(Head(containers))
         THEN <<Head(containers)>> \o getPeerContainers(Tail(containers))
         ELSE getPeerContainers(Tail(containers))

\* getAttributeFromJSON("peers", json, msg) of bdd_json_util: the field, or an error
getAttributeFromJSON(response) ==
    IF response.hasPeers
    THEN [kind |-> "list", peers |-> response.peers]
    ELSE [kind |-> "error", peers |-> <<>>]

\* lines 231-238 without the test of line 235
getConnectedPeersFromPeer_NoStatusCheck(response) == getAttributeFromJSON(response)

\* lines 231-238 with an empty list, not None, for a status that is not 200
getConnectedPeersFromPeer_EmptyList(response) ==
    IF response.status # HTTP_OK
    THEN [kind |-> "list", peers |-> <<>>]
    ELSE getAttributeFromJSON(response)

\* lines 231-238
getConnectedPeersFromPeer(response) ==
    IF response.status # HTTP_OK
    THEN [kind |-> "None", peers |-> <<>>]
    ELSE getAttributeFromJSON(response)

\* lines 215-229 expecting a list without thisPeer itself
peerIsReady_Others(connectedPeers, allPeers) ==
    IF connectedPeers.kind = "None"
    THEN FALSE
    ELSE Len(allPeers) - 1 = Len(connectedPeers.peers)

\* lines 215-229 accepting a list that is at least as long as expected
peerIsReady_AtLeast(connectedPeers, allPeers) ==
    IF connectedPeers.kind = "None"
    THEN FALSE
    ELSE Len(allPeers) <= Len(connectedPeers.peers)

\* lines 215-229, for a connectedPeers that was returned
peerIsReady(connectedPeers, allPeers) ==
    IF connectedPeers.kind = "None"
    THEN FALSE
    ELSE Len(allPeers) = Len(connectedPeers.peers)

\* lines 109-117 returning True whatever peersAreReady is
returnOf_AlwaysTrue(peersAreReady) == "True"

\* lines 109-117: the value allContainersAreReadyWithinTimeout returns
returnOf(peersAreReady) == IF peersAreReady THEN "True" ELSE "False"

\* What a poll found, in the words of the specification (observers, not code):
\* the container shows a socket and answers its REST probe
ContainerUp(netstatOk, curlOk) == netstatOk /\ curlOk
\* the endpoint answers 200 with a peers list of the expected length
PeerConverged(response, numPeers) ==
    /\ response.status = 200
    /\ response.hasPeers
    /\ Len(response.peers) = numPeers

Pending(list) == [i \in 1..Len(list) |-> "PENDING"]
Zeros(list)   == [i \in 1..Len(list) |-> 0]

\* lines 101-106: entry of allContainersAreReadyWithinTimeout
Start(timeout) ==
    /\ pc \in {"idle", "done", "raised"}
    /\ op' = "allContainersAreReadyWithinTimeout"
    /\ now' = 0
    /\ timeoutTimestamp' = timeoutTimestampOf(now', timeout)
    /\ sleeps' = 0
    /\ checkStart' = 0
    /\ peers' = <<>>
    /\ pidx' = 1
    /\ pstate' = <<>>
    /\ pevals' = <<>>
    /\ pseen' = <<>>
    /\ pfirst' = <<>>
    /\ cidx' = 1
    /\ IF has_compose_containers
       THEN /\ allContainers' = compose_containers
            /\ cstate' = Pending(compose_containers)
            /\ cevals' = Zeros(compose_containers)
            /\ cfirst' = [i \in 1..Len(compose_containers) |-> "none"]
            /\ result' = "none"
            /\ pc' = "for_container"
       ELSE \* line 106 raises AttributeError
            /\ allContainers' = <<>>
            /\ cstate' = <<>>
            /\ cevals' = <<>>
            /\ cfirst' = <<>>
            /\ result' = "raised"
            /\ pc' = "raised"
    /\ UNCHANGED <<regVars, envVars, callVars>>

\* lines 109-110, 178-179 going on with the same check after its time-out
afterTimedOut_SameCheck(loop, idx) ==
    [pc |-> IF loop = "container" THEN "container_sleep" ELSE "peer_sleep", idx |-> idx]

\* lines 109-110, 178-179 with `continue` in place of `return False`
afterTimedOut_NextCheck(loop, idx) ==
    [pc |-> IF loop = "container" THEN "for_container" ELSE "for_peer", idx |-> idx + 1]

\* lines 109-110, 178-179: a check that returned False ends the loop over the
\* checks and the call; idx is the position in the loop
afterTimedOut(loop, idx) == [pc |-> "done", idx |-> idx]

\* line 108, and lines 112, 174 when the loop is over
ForContainer ==
    /\ pc = "for_container"
    /\ op' = "for container"
    /\ IF cidx <= Len(allContainers)
       THEN /\ pc' = "container_eval"
            /\ checkStart' = now
            /\ UNCHANGED <<peers, pstate, pevals, pseen, pfirst>>
       ELSE /\ peers' = getPeerContainers(allContainers)
            /\ pstate' = Pending(peers')
            /\ pevals' = Zeros(peers')
            /\ pseen' = [i \in 1..Len(peers') |-> {}]
            /\ pfirst' = [i \in 1..Len(peers') |-> "none"]
            /\ pc' = "for_peer"
            /\ UNCHANGED checkStart
    /\ UNCHANGED <<regVars, envVars, callVars, now, timeoutTimestamp, allContainers, cidx, pidx,
                   result, cstate, cevals, cfirst, sleeps>>

\* line 120: one evaluation of containerIsNotInitialized; lines 128-129 when it is false
ContainerEval(netstatOk, curlOk, latency) ==
    /\ pc = "container_eval"
    /\ op' = "containerIsNotInitialized"
    /\ now' = now + latency
    /\ cevals' = [cevals EXCEPT ![cidx] = @ + 1]
    /\ cfirst' = [cfirst EXCEPT ![cidx] =
                     IF @ # "none" THEN @
                     ELSE IF ContainerUp(netstatOk, curlOk) THEN "up" ELSE "down"]
    /\ IF containerIsInitialized(allContainers[cidx], netstatOk, curlOk)
       THEN /\ cstate' = [cstate EXCEPT ![cidx] = "READY"]
            /\ cidx' = cidx + 1
            /\ pc' = "for_container"
       ELSE /\ UNCHANGED <<cstate, cidx>>
            /\ pc' = "container_timestamp"
    /\ UNCHANGED <<regVars, envVars, callVars, timeoutTimestamp, allContainers, peers, pidx, result,
                   pstate, pevals, pseen, pfirst, sleeps, checkStart>>

\* lines 121-123, and lines 109-110 when the deadline has passed
ContainerTimestamp ==
    /\ pc = "container_timestamp"
    /\ op' = "timestampExceeded"
    /\ IF timestampExceeded(now, timeoutTimestamp)
       THEN /\ cstate' = [cstate EXCEPT ![cidx] = "TIMED_OUT"]
            /\ result' = "False"   \* line 110
            /\ pc' = afterTimedOut("container", cidx).pc
            /\ cidx' = afterTimedOut("container", cidx).idx
       ELSE /\ UNCHANGED <<cstate, result, cidx>>
            /\ pc' = "container_sleep"
    /\ UNCHANGED <<regVars, envVars, callVars, now, timeoutTimestamp, allContainers, peers, pidx,
                   pstate, cevals, pevals, pseen, cfirst, pfirst, sleeps, checkStart>>

\* lines 125-126
ContainerSleep ==
    /\ pc = "container_sleep"
    /\ op' = "sleep"
    /\ sleeps' = sleeps + 1
    /\ now' = afterSleep(now)
    /\ pc' = "container_eval"
    /\ UNCHANGED <<regVars, envVars, callVars, timeoutTimestamp, allContainers, cidx, peers, pidx,
                   result, cstate, pstate, cevals, pevals, pseen, cfirst, pfirst, checkStart>>

\* line 177, and lines 181, 114-117 when the loop is over
ForPeer ==
    /\ pc = "for_peer"
    /\ op' = "for peer"
    /\ IF pidx <= Len(peers)
       THEN /\ pc' = "peer_eval"
            /\ checkStart' = now
            /\ UNCHANGED result
       ELSE /\ result' = returnOf(TRUE)
            /\ pc' = "done"
            /\ UNCHANGED checkStart
    /\ UNCHANGED <<regVars, envVars, callVars, now, timeoutTimestamp, allContainers, cidx, peers, pidx,
                   cstate, pstate, cevals, pevals, pseen, cfirst, pfirst, sleeps>>

\* line 201: one evaluation of peerIsNotReady; lines 209-210 when it is false
PeerEval(response, latency) ==
    /\ pc = "peer_eval"
    /\ op' = "peerIsNotReady"
    /\ now' = now + latency
    /\ pevals' = [pevals EXCEPT ![pidx] = @ + 1]
    /\ pseen' = [pseen EXCEPT ![pidx] =
                    @ \cup {IF response.status # HTTP_OK THEN "non200"
                            ELSE IF response.hasPeers THEN "200" ELSE "nopeers"}]
    /\ pfirst' = [pfirst EXCEPT ![pidx] =
                     IF @ # "none" THEN @
                     ELSE IF PeerConverged(response, Len(peers)) THEN "converged" ELSE "not"]
    /\ LET connectedPeers == getConnectedPeersFromPeer(response)
       IN  IF connectedPeers.kind = "error"
           THEN \* the error of getAttributeFromJSON leaves every frame
                /\ result' = "raised"
                /\ pc' = "raised"
                /\ UNCHANGED <<pstate, pidx>>
           ELSE IF peerIsReady(connectedPeers, peers)
                THEN /\ pstate' = [pstate EXCEPT ![pidx] = "READY"]
                     /\ pidx' = pidx + 1
                     /\ pc' = "for_peer"
                     /\ UNCHANGED result
                ELSE /\ pc' = "peer_timestamp"
                     /\ UNCHANGED <<pstate, pidx, result>>
    /\ UNCHANGED <<regVars, envVars, callVars, timeoutTimestamp, allContainers, cidx, peers,
                   cstate, cevals, cfirst, sleeps, checkStart>>

\* lines 202-204, and lines 178-179, 117 when the deadline has passed
PeerTimestamp ==
    /\ pc = "peer_timestamp"
    /\ op' = "timestampExceeded"
    /\ IF timestampExceeded(now, timeoutTimestamp)
       THEN /\ pstate' = [pstate EXCEPT ![pidx] = "TIMED_OUT"]
            /\ result' = returnOf(FALSE)
            /\ pc' = afterTimedOut("peer", pidx).pc
            /\ pidx' = afterTimedOut("peer", pidx).idx
       ELSE /\ UNCHANGED <<pstate, result, pidx>>
            /\ pc' = "peer_sleep"
    /\ UNCHANGED <<regVars, envVars, callVars, now, timeoutTimestamp, allContainers, cidx, peers,
                   cstate, cevals, pevals, pseen, cfirst, pfirst, sleeps, checkStart>>

\* lines 206-207
PeerSleep ==
    /\ pc = "peer_sleep"
    /\ op' = "sleep"
    /\ sleeps' = sleeps + 1
    /\ now' = afterSleep(now)
    /\ pc' = "peer_eval"
    /\ UNCHANGED <<regVars, envVars, callVars, timeoutTimestamp, allContainers, cidx, peers, pidx,
                   result, cstate, pstate, cevals, pevals, pseen, cfirst, pfirst, checkStart>>

\* peerIsReady(context, thisPeer, allPeers) on its own, lines 215-229
PeerIsReady ==
    /\ qResult = "none"
    /\ op' = "peerIsReady"
    /\ LET connectedPeers == getConnectedPeersFromPeer(qResponse)
       IN  qResult' = IF connectedPeers.kind = "error" THEN "raised"
                      ELSE IF peerIsReady(connectedPeers, qPeers) THEN "True" ELSE "False"
    /\ UNCHANGED <<regVars, envVars, qPeers, qResponse, probeVars, readyVars>>

NoOutcome == [kind |-> "none", ready |-> FALSE, curlIssued |-> FALSE, peers |-> <<>>]

\* containerIsInitialized(container) on its own, lines 137-171
ContainerIsInitialized ==
    /\ qOutcome = NoOutcome
    /\ op' = "containerIsInitialized"
    /\ LET netstatOk == tcpPortsAreReady(qNetstat)
       IN  qOutcome' = [kind       |-> "containerIsInitialized",
                        ready      |-> containerIsInitialized(qContainer, netstatOk, qCurlExit = 0),
                        curlIssued |-> curlIsIssued(qContainer, netstatOk),
                        peers      |-> <<>>]
    /\ UNCHANGED <<regVars, envVars, qPeers, qResponse, qResult, qContainer, qNetstat, qCurlExit,
                   readyVars>>

\* getPeerContainers on the one container, lines 183-198
GetPeerContainers ==
    /\ qOutcome = NoOutcome
    /\ op' = "getPeerContainers"
    /\ qOutcome' = [kind       |-> "getPeerContainers",
                    ready      |-> FALSE,
                    curlIssued |-> FALSE,
                    peers      |-> getPeerContainers(<<qContainer>>)]
    /\ UNCHANGED <<regVars, envVars, qPeers, qResponse, qResult, qContainer, qNetstat, qCurlExit,
                   readyVars>>

AllContainersAreReadyWithinTimeout == \E timeout \in Timeouts : Start(timeout)
ContainerIsNotInitialized ==
    \E netstatOk \in BOOLEAN, curlOk \in BOOLEAN, latency \in Latencies :
        ContainerEval(netstatOk, curlOk, latency)
PeerIsNotReady == \E response \in Responses, latency \in Latencies : PeerEval(response, latency)

----------------------------------------------------------------------------
(* Specifications *)

\* values of the variables an operation has not touched yet
IdleRegistry ==
    /\ has_compose_containers = FALSE
    /\ compose_containers = <<>>
    /\ compose_error = <<>>
IdleEnv ==
    /\ envRecord = ContainerData(thisContainerOf(Tok_vp0))
    /\ envKey = <<>>
    /\ envValue = NoValue
IdleReady ==
    /\ pc = "idle"
    /\ now = 0
    /\ timeoutTimestamp = 0
    /\ allContainers = <<>>
    /\ cidx = 1
    /\ peers = <<>>
    /\ pidx = 1
    /\ result = "none"
    /\ cstate = <<>>
    /\ pstate = <<>>
    /\ cevals = <<>>
    /\ pevals = <<>>
    /\ pseen = <<>>
    /\ cfirst = <<>>
    /\ pfirst = <<>>
    /\ sleeps = 0
    /\ checkStart = 0
IdleProbe ==
    /\ qContainer = ContainerData(thisContainerOf(Tok_vp0))
    /\ qNetstat = <<>>
    /\ qCurlExit = 0
    /\ qOutcome = NoOutcome
IdleCall ==
    /\ IdleProbe
    /\ qPeers = <<>>
    /\ qResponse = [status |-> HTTP_OK, hasPeers |-> TRUE, peers |-> <<>>]
    /\ qResult = "none"

\* The registry: a fresh context, then any sequence of compose steps
InitParse == IdleRegistry /\ IdleEnv /\ IdleCall /\ IdleReady /\ op = "init"
NextParse == ParseComposeOutput
SpecParse == InitParse /\ [][NextParse]_vars

\* getEnv on a record whose environment list and key are drawn from bounded sets
InitGetEnv ==
    /\ IdleRegistry /\ IdleCall /\ IdleReady /\ op = "init"
    /\ envRecord \in {[ContainerData(thisContainerOf(Tok_vp0)) EXCEPT !.envFromInspect = e] :
                        e \in SeqsUpTo(EnvEntries, MaxEnvLen)}
    /\ envKey \in EnvKeys
    /\ envValue = NoValue
NextGetEnv == GetEnv
SpecGetEnv == InitGetEnv /\ [][NextGetEnv]_vars

\* peerIsReady on any list of peers and any answer of the endpoint
PeerRecords == {ContainerData(thisContainerOf(t)) : t \in {Tok_vp0, Tok_VP1}}
InitPeerIsReady ==
    /\ IdleRegistry /\ IdleEnv /\ IdleProbe /\ IdleReady /\ op = "init"
    /\ qPeers \in SeqsUpTo(PeerRecords, MaxContainers)
    /\ qResponse \in Responses
    /\ qResult = "none"
NextPeerIsReady == PeerIsReady
SpecPeerIsReady == InitPeerIsReady /\ [][NextPeerIsReady]_vars

\* A test session: compose output is parsed into the registry between readiness
\* calls. The compose output has at most one line per call, the deadline is the
\* entry time, probes take no time, and an endpoint answers 404 or 200 with at
\* most one descriptor.
SessionOutputs   == {out \in Outputs : Len(out) <= 1}
SessionResponses == {r \in Responses : r.status # 500 /\ Len(r.peers) <= 1}
SessionParseComposeOutput ==
    \E out \in SessionOutputs, inspectOk \in BOOLEAN : parseComposeOutput(out, inspectOk)
SessionAllContainersAreReadyWithinTimeout == Start(0)
SessionContainerIsNotInitialized == \E netstatOk \in BOOLEAN : ContainerEval(netstatOk, TRUE, 0)
SessionPeerIsNotReady == \E response \in SessionResponses : PeerEval(response, 0)
InitSession == IdleRegistry /\ IdleEnv /\ IdleCall /\ IdleReady /\ op = "init"
NextSession ==
    \/ SessionParseComposeOutput
    \/ SessionAllContainersAreReadyWithinTimeout
    \/ ForContainer
    \/ SessionContainerIsNotInitialized
    \/ ContainerTimestamp
    \/ ContainerSleep
    \/ ForPeer
    \/ SessionPeerIsNotReady
    \/ PeerTimestamp
    \/ PeerSleep
SpecSession == InitSession /\ [][NextSession]_vars

\* container names the probes are tried on
Name_vp0   == <<"v", "p", "0">>
Name_VP12  == <<"V", "P", "1", "2">>
Name_peer1 == <<"p", "e", "e", "r", "1">>
Name_vp    == <<"v", "p">>
Name_vP_3  == <<"v", "P", "_", "3">>
ProbeNames == {Name_vp0, Name_VP12, Name_peer1, Name_vp, Name_vP_3,
               thisContainerOf(Tok_vp0), thisContainerOf(Tok_VP1), thisContainerOf(Tok_db)}

\* containerIsInitialized and getPeerContainers on any container, netstat
\* output and curl exit code (7: curl could not connect)
InitProbe ==
    /\ IdleRegistry /\ IdleEnv /\ IdleReady /\ op = "init"
    /\ qPeers = <<>>
    /\ qResponse = [status |-> HTTP_OK, hasPeers |-> TRUE, peers |-> <<>>]
    /\ qResult = "none"
    /\ qContainer \in {ContainerData(n) : n \in ProbeNames}
    /\ qNetstat \in SeqsUpTo(NetstatLines, MaxNetstat)
    /\ qCurlExit \in {0, 7}
    /\ qOutcome = NoOutcome
NextProbe == ContainerIsInitialized \/ GetPeerContainers
SpecProbe == InitProbe /\ [][NextProbe]_vars

\* names parseComposeOutput registers, and the registries it builds from them
RegisteredNames == {thisContainerOf(t) : t \in {Tok_vp0, Tok_VP1, Tok_db}}
Registries      == SeqsUpTo({ContainerData(n) : n \in RegisteredNames}, MaxContainers)

\* Readiness: a context whose registry the compose steps have built (or not yet)
InitReady ==
    /\ IdleEnv /\ IdleCall /\ IdleReady /\ op = "init"
    /\ compose_error = <<>>
    /\ \/ has_compose_containers = FALSE /\ compose_containers = <<>>
       \/ has_compose_containers = TRUE /\ compose_containers \in Registries
NextReady ==
    \/ AllContainersAreReadyWithinTimeout
    \/ ForContainer
    \/ ContainerIsNotInitialized
    \/ ContainerTimestamp
    \/ ContainerSleep
    \/ ForPeer
    \/ PeerIsNotReady
    \/ PeerTimestamp
    \/ PeerSleep
SpecReady == InitReady /\ [][NextReady]_vars

\* Calls whose every command, request and sleep returns. Probes take no time,
\* so the clock only moves in the sleeps; the registry holds a peer, or a
\* container that is no peer, at each place; an endpoint answers anything.
FairRegistries ==
    SeqsUpTo({ContainerData(thisContainerOf(t)) : t \in {Tok_vp0, Tok_db}}, MaxContainers)
InitReadyFair ==
    /\ IdleEnv /\ IdleCall /\ IdleReady /\ op = "init"
    /\ compose_error = <<>>
    /\ \/ has_compose_containers = FALSE /\ compose_containers = <<>>
       \/ has_compose_containers = TRUE /\ compose_containers \in FairRegistries
FairContainerIsNotInitialized ==
    \E netstatOk \in BOOLEAN, curlOk \in BOOLEAN : ContainerEval(netstatOk, curlOk, 0)
FairPeerIsNotReady == \E response \in Responses : PeerEval(response, 0)

\* The steps inside a call. The code is one thread of blocking calls: when every
\* command, request and sleep returns, the call takes its next step.
Poll ==
    \/ ForContainer
    \/ FairContainerIsNotInitialized
    \/ ContainerTimestamp
    \/ ContainerSleep
    \/ ForPeer
    \/ FairPeerIsNotReady
    \/ PeerTimestamp
    \/ PeerSleep
NextReadyFair == AllContainersAreReadyWithinTimeout \/ Poll
SpecReadyFair == InitReadyFair /\ [][NextReadyFair]_vars /\ WF_vars(Poll)

----------------------------------------------------------------------------
(* Properties of the registry, checked under SpecParse *)

namesOf(list) == [i \in 1..Len(list) |-> list[i].containerName]
NoDuplicates(seq) == \A i, j \in 1..Len(seq) : i # j => seq[i] # seq[j]

\* C3: after any sequence of parseComposeOutput calls, every container name
\* appears at most once in context.compose_containers.
C3_NameAtMostOnce == NoDuplicates(namesOf(compose_containers))

\* the lines of an output that carry a second token, and the first such line
\* whose token is registered under the name n
NamingLines(out) == {k \in 1..Len(out) : 1 < Len(out[k])}
FirstLineOf(out, n) ==
    CHOOSE k \in NamingLines(out) :
        /\ thisContainerOf(out[k][2]) = n
        /\ \A m \in NamingLines(out) : thisContainerOf(out[m][2]) = n => k <= m

\* C4: a parseComposeOutput call that returns, made on an empty registry, leaves
\* each normalized container name of its output in the registry exactly once,
\* in the order of first occurrence.
C4_SingleCallDedup ==
    [][(op' = "parseComposeOutput" /\ existingList = <<>>) =>
          LET out   == compose_error'
              names == namesOf(compose_containers')
          IN  /\ NoDuplicates(names)
              /\ {names[i] : i \in 1..Len(names)}
                    = {thisContainerOf(out[k][2]) : k \in NamingLines(out)}
              /\ \A i, j \in 1..Len(names) :
                    i < j => FirstLineOf(out, names[i]) < FirstLineOf(out, names[j])]_vars

\* C4 witness: one call on the empty registry, whose output names the bare
\* service and then its prefixed instance name, registered a single record.
C4_Witness ==
    /\ op = "parseComposeOutput"
    /\ compose_error = <<<<"Creating", Tok_vp0>>, <<"Creating", Tok_n_vp0_1>>>>
    /\ namesOf(compose_containers) = <<Tok_n_vp0_1>>

\* C10: a second token that does not start with the project prefix is
\* registered as prefix + "_" + token + "_1", one that starts with it unchanged.
C10_PrefixNormalization ==
    op = "parseComposeOutput" =>
        \A k \in NamingLines(compose_error) :
            LET token == compose_error[k][2]
            IN  InSeq(IF StartsWith(token, containerNamePrefix)
                      THEN token
                      ELSE cwdBasename \o <<"_">> \o token \o <<"_", "1">>,
                      namesOf(compose_containers))

----------------------------------------------------------------------------
(* Properties of peerIsReady, checked under SpecPeerIsReady *)

\* C7: peerIsReady returns True iff the endpoint's answer gives a list (status
\* 200, peers field present) whose length equals the number of expected peers.
C7_ReadyIffLengthEqual ==
    qResult # "none" =>
        (qResult = "True" <=>
            /\ qResponse.status = 200
            /\ qResponse.hasPeers
            /\ Len(qResponse.peers) = Len(qPeers))

\* C7 witness: two expected peers and a list of two descriptors that are not
\* the peers' identities give True
C7_Witness ==
    /\ qResult = "True"
    /\ Len(qPeers) = 2
    /\ qResponse.peers = <<"a", "a">>

\* C8: peerIsReady returns False whenever the endpoint answers with a status
\* that is not 200, whatever the number of expected peers.
C8_Non200IsFalse ==
    (qResult # "none" /\ qResponse.status # 200) => qResult = "False"

\* C8 witness: no expected peer, a 500 answer, and False
C8_Witness ==
    /\ qResult = "False"
    /\ qPeers = <<>>
    /\ qResponse.status = 500

----------------------------------------------------------------------------
(* Properties of getEnv, checked under SpecGetEnv *)

\* the key of a KEY=VALUE entry: what precedes its first "="
KeyOfEntry(val) ==
    IF \E i \in 1..Len(val) : val[i] = "="
    THEN SubSeq(val, 1, (CHOOSE i \in 1..Len(val) :
                            val[i] = "=" /\ \A j \in 1..(i - 1) : val[j] # "=") - 1)
    ELSE val

\* C9: getEnv raises whenever the requested key is not the key of an entry of
\* the record's environment list.
C9_AbsentKeyRaises ==
    (envValue.kind # "none"
        /\ \A i \in 1..Len(envRecord.envFromInspect) :
              KeyOfEntry(envRecord.envFromInspect[i]) # envKey)
    => envValue.kind = "raised"

----------------------------------------------------------------------------
(* Properties of allContainersAreReadyWithinTimeout, checked under SpecReady *)

Returned == pc = "done"
Left     == pc \in {"done", "raised"}
AllContainersObservedInitialized ==
    \A i \in 1..Len(allContainers) : cstate[i] = "READY"

\* C1: when every container was observed initialized and a peer's endpoint
\* answered each of its polls with a status that is not 200, the call returns
\* False, and only with the clock past the deadline.
C1_Non200PeerFalseAfterDeadline ==
    (/\ Left
     /\ AllContainersObservedInitialized
     /\ \E j \in 1..Len(peers) : pevals[j] > 0 /\ pseen[j] = {"non200"})
    => (Returned /\ result = "False" /\ now > timeoutTimestamp)

\* C1 witness: two peers, the first converged, the second answered non-200 at
\* each of several polls, and the call returned False
C1_Witness ==
    /\ Returned
    /\ result = "False"
    /\ Len(peers) = 2
    /\ pstate[1] = "READY"
    /\ pevals[2] >= 2
    /\ pseen[2] = {"non200"}

\* the context has a registry, every container of it was up and every peer
\* converged at its first poll
AllFirstPollsGood ==
    /\ has_compose_containers
    /\ \A i \in 1..Len(allContainers) : cfirst[i] = "up"
    /\ Len(pfirst) = Len(getPeerContainers(allContainers))
    /\ \A j \in 1..Len(pfirst) : pfirst[j] = "converged"

\* C2 as claimed: with every first poll good the call returns True, before the
\* deadline and without any sleep.
C2_FirstPollTrueBeforeDeadline ==
    (Left /\ AllFirstPollsGood) =>
        (Returned /\ result = "True" /\ sleeps = 0 /\ ~(now > timeoutTimestamp))

\* C2 as amended: with every first poll good the call returns True without any
\* sleep, whether or not the clock has passed the deadline.
C2_FirstPollTrueNoSleep ==
    (Left /\ AllFirstPollsGood) => (Returned /\ result = "True" /\ sleeps = 0)

\* C2 witness: two peers, all first polls good, True returned in time
C2_Witness ==
    /\ Returned
    /\ AllFirstPollsGood
    /\ Len(peers) = 2
    /\ result = "True"
    /\ now <= timeoutTimestamp

\* C5: the call returns True iff every container was observed initialized and
\* every peer container was observed converged; a check that times out ends the
\* call with False at once; with an empty registry it returns True.
C5_ResultIsConjunction ==
    /\ Returned => result \in {"True", "False"}
    /\ Returned =>
          (result = "True" <=>
              /\ AllContainersObservedInitialized
              /\ Len(pstate) = Len(getPeerContainers(allContainers))
              /\ \A j \in 1..Len(pstate) : pstate[j] = "READY")
    /\ ((\E i \in 1..Len(cstate) : cstate[i] = "TIMED_OUT")
           \/ (\E j \in 1..Len(pstate) : pstate[j] = "TIMED_OUT"))
          => (Returned /\ result = "False")
    /\ (Returned /\ allContainers = <<>>) => result = "True"

\* C5 witness: a container and a peer observed ready, then the second peer
\* timed out and the call returned False
C5_Witness ==
    /\ Returned
    /\ result = "False"
    /\ Len(peers) = 2
    /\ AllContainersObservedInitialized
    /\ pstate = <<"READY", "TIMED_OUT">>

\* C6: the deadline is set at the entry of the call and by nothing else, and no
\* sleep is started with the clock strictly past it.
C6_SharedDeadline ==
    [][/\ op' # "allContainersAreReadyWithinTimeout" => timeoutTimestamp' = timeoutTimestamp
       /\ sleeps' = sleeps + 1 => ~(now > timeoutTimestamp)]_vars

\* C6 witness: both a container poll and a later peer poll have slept, under
\* the one deadline
C6_Witness ==
    /\ pc = "peer_eval"
    /\ cevals[1] >= 2
    /\ pevals[1] >= 2
    /\ sleeps >= 2

----------------------------------------------------------------------------
(* Properties of containerIsInitialized and containerIsPeer, checked under SpecProbe *)

\* the name holds "vp", in either case, followed by a digit
LowerCase(c) == CASE c = "V" -> "v" [] c = "P" -> "p" [] OTHER -> c
Digits == {"0", "1", "2", "3", "4", "5", "6", "7", "8", "9"}
HoldsVpDigit(name) ==
    \E pre, post \in 0..Len(name) :
        /\ pre + 3 + post = Len(name)
        /\ <<LowerCase(name[pre + 1]), LowerCase(name[pre + 2])>> = <<"v", "p">>
        /\ name[pre + 3] \in Digits

\* C11: containerIsInitialized is True iff the netstat output has a line with
\* ESTABLISHED or LISTEN and, for a peer, the curl exits with 0; for a container
\* that is no peer the curl is not run.
C11_InitializedIffSocketAndRest ==
    qOutcome.kind = "containerIsInitialized" =>
        /\ qOutcome.ready <=>
              /\ \E i \in 1..Len(qNetstat) : qNetstat[i] \in {"ESTABLISHED", "LISTEN"}
              /\ HoldsVpDigit(qContainer.containerName) => qCurlExit = 0
        /\ ~HoldsVpDigit(qContainer.containerName) => ~qOutcome.curlIssued

\* C11 witness: a container that is no peer, a LISTEN line after another one, a
\* curl that would fail, and True without the curl
C11_Witness ==
    /\ qOutcome.kind = "containerIsInitialized"
    /\ qContainer.containerName = thisContainerOf(Tok_db)
    /\ qNetstat = <<"TIME_WAIT", "LISTEN">>
    /\ qCurlExit = 7
    /\ qOutcome.ready
    /\ ~qOutcome.curlIssued

\* C12: a container is a peer iff its name holds vp followed by a digit, in
\* either case: vp0 and VP12 are peers, peer1 and vp are not.
C12_PeerIffVpDigits ==
    qOutcome.kind = "getPeerContainers" =>
        /\ qOutcome.peers = (IF HoldsVpDigit(qContainer.containerName)
                             THEN <<qContainer>> ELSE <<>>)
        /\ qContainer.containerName \in {Name_vp0, Name_VP12} => qOutcome.peers = <<qContainer>>
        /\ qContainer.containerName \in {Name_peer1, Name_vp} => qOutcome.peers = <<>>

\* C12 witness: VP12 is found to be a peer
C12_Witness ==
    /\ qOutcome.kind = "getPeerContainers"
    /\ qContainer.containerName = Name_VP12
    /\ qOutcome.peers = <<qContainer>>

----------------------------------------------------------------------------
(* Properties of the polls, checked under SpecReady *)

\* C13: an answer that is not 200 is soft: the poll goes on to the deadline
\* test and, before the deadline, to the sleep and the next query, and nothing is
\* raised. A 200 answer without "peers" raises at its first occurrence: the call
\* is left with no result and no poll follows.
C13_Non200SoftMissingPeersRaises ==
    [][/\ (pc = "peer_eval" /\ pevals' # pevals) =>
             IF "nopeers" \in pseen'[pidx]
             THEN pc' = "raised" /\ result' = "raised" /\ pstate' = pstate
             ELSE /\ pc' \in {"for_peer", "peer_timestamp"}
                  /\ result' = result
                  /\ pseen'[pidx] = {"non200"} => pc' = "peer_timestamp"
       /\ (pc = "peer_timestamp" /\ pc' # pc /\ now <= timeoutTimestamp) =>
             pc' = "peer_sleep" /\ result' = result
       /\ (pc = "peer_sleep" /\ pc' # pc) => pc' = "peer_eval" /\ pidx' = pidx
       /\ (pc = "raised" /\ pc' = pc) => pevals' = pevals /\ cevals' = cevals
       /\ (pc = "raised" /\ pc' # pc) => op' = "allContainersAreReadyWithinTimeout"
      ]_vars

\* C13 witness: a peer answered 404, was asked again after a sleep and then
\* answered 200 without "peers"; the call raised
C13_Witness ==
    /\ pc = "raised"
    /\ \E j \in 1..Len(peers) :
          /\ pseen[j] = {"non200", "nopeers"}
          /\ pevals[j] = 2
          /\ pstate[j] = "PENDING"
    /\ sleeps = 1

\* some check of the call has timed out
SomeTimedOut ==
    \/ \E i \in DOMAIN cstate : cstate[i] = "TIMED_OUT"
    \/ \E j \in DOMAIN pstate : pstate[j] = "TIMED_OUT"

\* C14: within a call a check only moves from PENDING to READY or from PENDING
\* to TIMED_OUT, and once a check is TIMED_OUT no predicate is evaluated again,
\* for that check or a later one: the only step left is the entry of a new call.
C14_CheckStateMachine ==
    [][/\ op' # "allContainersAreReadyWithinTimeout" =>
             /\ DOMAIN cstate' = DOMAIN cstate
             /\ \A i \in DOMAIN cstate :
                   cstate'[i] # cstate[i] =>
                       cstate[i] = "PENDING" /\ cstate'[i] \in {"READY", "TIMED_OUT"}
             /\ \A j \in DOMAIN pstate :
                   /\ j \in DOMAIN pstate'
                   /\ pstate'[j] # pstate[j] =>
                          pstate[j] = "PENDING" /\ pstate'[j] \in {"READY", "TIMED_OUT"}
       /\ SomeTimedOut =>
             /\ pc = "done" /\ result = "False"
             /\ op' = "allContainersAreReadyWithinTimeout"
             /\ \A i \in DOMAIN cevals' : cevals'[i] = 0
             /\ \A j \in DOMAIN pevals' : pevals'[j] = 0
      ]_vars

\* C14 witness: the first container timed out after two evaluations, and the
\* second was never evaluated
C14_Witness ==
    /\ cstate = <<"TIMED_OUT", "PENDING">>
    /\ cevals = <<2, 0>>
    /\ pc = "done"

\* C16: the checks run one after the other in registry order, containers
\* first: a container is only evaluated when every container before it was
\* observed initialized, and a peer is only queried when every container and
\* every peer before it was observed ready.
C16_SequentialInRegistryOrder ==
    /\ pc \notin {"idle", "raised"} => allContainers = compose_containers
    /\ \A i \in DOMAIN cevals :
          (cevals[i] > 0 \/ (pc = "container_eval" /\ cidx = i)) =>
              \A k \in 1..(i - 1) : cstate[k] = "READY"
    /\ \A j \in DOMAIN pevals :
          (pevals[j] > 0 \/ (pc = "peer_eval" /\ pidx = j)) =>
              /\ \A i \in DOMAIN cstate : cstate[i] = "READY"
              /\ \A k \in 1..(j - 1) : pstate[k] = "READY"
    /\ peers # <<>> => peers = getPeerContainers(allContainers)

\* C16 witness: two peers; the second container was evaluated after the first
\* needed two evaluations, and the second peer was queried twice after all that
C16_Witness ==
    /\ Len(allContainers) = 2
    /\ cevals = <<2, 1>>
    /\ pevals = <<1, 2>>
    /\ cstate = <<"READY", "READY">>
    /\ pstate[1] = "READY"

----------------------------------------------------------------------------
(* The registry across parses and readiness calls, checked under SpecSession *)

IsPrefix(a, b) == Len(a) <= Len(b) /\ \A i \in 1..Len(a) : b[i] = a[i]

\* C15: the registry is append-only: what it held before a parseComposeOutput
\* call is a prefix of what it holds after, and the readiness operations leave
\* it as it is.
C15_RegistryAppendOnly ==
    [][IF op' \in {"parseComposeOutput", "parseComposeOutput raised"}
       THEN /\ IsPrefix(existingList, existingList')
            /\ has_compose_containers => has_compose_containers'
       ELSE UNCHANGED regVars
      ]_vars

\* C15 witness: a readiness call ran on a registry of one record, and the parse
\* after it appended a record with another name
C15_Witness ==
    /\ op = "parseComposeOutput"
    /\ Len(compose_containers) = 2
    /\ compose_containers[1].containerName # compose_containers[2].containerName
    /\ pc = "done"
    /\ allContainers = <<compose_containers[1]>>

----------------------------------------------------------------------------
(* The budget of the checks, checked under SpecReady *)

\* C17: the checks share one budget. A timed-out check has the clock past the
\* one deadline of the call, however late the check began, and all the sleeps of
\* a call fit before that deadline; so a peer whose own check began late is
\* reported not ready less than `timeout` seconds after its check began (the
\* witness), although it could converge within `timeout` seconds of that.
C17_SharedBudget ==
    /\ \A i \in DOMAIN cstate : cstate[i] = "TIMED_OUT" => now > timeoutTimestamp
    /\ \A j \in DOMAIN pstate :
          pstate[j] = "TIMED_OUT" =>
              /\ now > timeoutTimestamp
              /\ result = "False"
              /\ now - checkStart < timeoutTimestamp => checkStart > 0
    /\ sleeps <= (IF timeoutTimestamp < 0 THEN 0 ELSE timeoutTimestamp + 1)
    /\ checkStart <= now

\* C17 witness: timeout 1; the container check slept and ended two seconds
\* after the entry; the check of the peer began then, found the peer not yet
\* converged and was timed out in the same second: the call returned False
C17_Witness ==
    /\ pc = "done"
    /\ result = "False"
    /\ timeoutTimestamp = 1
    /\ \A i \in DOMAIN cstate : cstate[i] = "READY"
    /\ sleeps >= 1
    /\ \E j \in DOMAIN pstate :
          /\ pstate[j] = "TIMED_OUT"
          /\ pevals[j] = 1
          /\ now - checkStart < timeoutTimestamp

\* C18: a poll evaluates its predicate before it looks at the deadline: a check
\* whose predicate holds at the first evaluation is READY after that one
\* evaluation whatever the clock says, the deadline is only read right after an
\* evaluation that found the predicate false, and a check only times out on a
\* clock reading strictly greater than the deadline.
C18_EvaluateBeforeDeadline ==
    [][/\ \A i \in DOMAIN cfirst' :
             cfirst'[i] = "up" => cstate'[i] = "READY" /\ cevals'[i] = 1
       /\ \A j \in DOMAIN pfirst' :
             pfirst'[j] = "converged" => pstate'[j] = "READY" /\ pevals'[j] = 1
       /\ op' = "timestampExceeded" =>
             \/ op = "containerIsNotInitialized" /\ cevals[cidx] >= 1 /\ cstate[cidx] = "PENDING"
             \/ op = "peerIsNotReady" /\ pevals[pidx] >= 1 /\ pstate[pidx] = "PENDING"
       /\ (result' = "False" /\ result # "False") =>
             /\ op' = "timestampExceeded"
             /\ timeoutTimestamp < now'
             /\ now' = now
      ]_vars

\* C18 witness: the deadline had passed at the entry (timeout -1), and a
\* container and a peer were each found ready by their first evaluation
C18_Witness ==
    /\ timeoutTimestamp < 0
    /\ pc = "done"
    /\ result = "True"
    /\ \E i \in DOMAIN cstate : cstate[i] = "READY" /\ cevals[i] = 1 /\ cfirst[i] = "up"
    /\ \E j \in DOMAIN pstate : pstate[j] = "READY" /\ pevals[j] = 1 /\ pfirst[j] = "converged"

----------------------------------------------------------------------------
(* Termination of the call, checked under SpecReadyFair *)

\* the check of container i, or of peer j, is the one being polled
ContainerCheckOn(i) == pc \in {"container_eval", "container_timestamp", "container_sleep"} /\ cidx = i
PeerCheckOn(j)      == pc \in {"peer_eval", "peer_timestamp", "peer_sleep"} /\ pidx = j

\* C19 as stated: a call on a registry only stops when it has returned, with
\* every check it began READY or TIMED_OUT.
C19_StopsOnlyReturned ==
    (has_compose_containers /\ pc # "idle" /\ ~ENABLED Poll) =>
        /\ pc = "done"
        /\ \A i \in DOMAIN cstate : cevals[i] > 0 => cstate[i] # "PENDING"
        /\ \A j \in DOMAIN pstate : pevals[j] > 0 => pstate[j] # "PENDING"

\* C19 amended: a call on a registry eventually returns or raises; every
\* container check that began eventually is READY or TIMED_OUT, and every peer
\* check that began eventually is READY or TIMED_OUT unless the call raises.
\* The sleeps, which only happen up to the deadline, each move the clock on.
C19_ReturnsOrRaises ==
    /\ [][op' = "sleep" => (now <= timeoutTimestamp /\ now < now')]_vars
    /\ (pc = "for_container") ~> (pc \in {"done", "raised"})
    /\ \A i \in 1..MaxContainers :
          ContainerCheckOn(i) ~> (i \in DOMAIN cstate /\ cstate[i] # "PENDING")
    /\ \A j \in 1..MaxContainers :
          PeerCheckOn(j) ~> ((j \in DOMAIN pstate /\ pstate[j] # "PENDING") \/ pc = "raised")

\* C19 witness: a container that was never found initialized was polled until
\* the deadline had passed, and the call returned
C19_Witness ==
    /\ pc = "done"
    /\ result = "False"
    /\ timeoutTimestamp = 1
    /\ cstate[1] = "TIMED_OUT"
    /\ cevals[1] = 3
    /\ sleeps = 2

====
